---- MODULE Spec2Model ----
(***************************************************************************)
(* Model of MentorChatBot (src/mentoringbot.py): the registry (users), the *)
(* mentor<->participant pairing (sessions), the waitlist, the histories    *)
(* and the awaiting-name set, driven by the aiogram dispatcher: an inbound *)
(* message goes to the FIRST registered message handler whose filter       *)
(* accepts it, a callback query to the handler of its callback data.       *)
(*                                                                         *)
(* Every handler writes the state before its first await, so one handler   *)
(* run is one step.  A handler is an operator from the state at its start  *)
(* to the state it leaves, together with what it sent (outbox) and the     *)
(* exception that ended it (raised); the steps keep the state, and the     *)
(* properties about notices read outbox off the handler's result in every  *)
(* reachable state.                                                        *)
(***************************************************************************)
EXTENDS Integers, Sequences, FiniteSets, TLC

\* ------------------------------------------------------------------ bounds
NumParticipants == 2     \* identities other than the mentor
MaxHist == 1             \* transcript lines held by all histories together before relays stop

\* --------------------------------------------------------------- constants
MENTOR_ID == 1
ACCESS_PASSWORD == "abc123"
None == "<None>"
ANONYMOUS == "Anonim"
MENTOR_FALLBACK == "Mentor"

Ids == 1..(NumParticipants + 1)
Participants == Ids \ {MENTOR_ID}

\* identities that press "enter_custom_name" (bound on the inputs explored:
\* the mentor presses every other button, but not this one)
NameEntrants == Participants

\* from_user.username of each identity (None: the profile has no username)
Username(i) == IF i = 2 THEN "alice" ELSE None

\* message texts the identities send: the password, the password padded with
\* blanks (a free text that is not the password), a blank text, the commands
PADDED == " abc123 "
BLANK == "  "
Texts == {ACCESS_PASSWORD, PADDED, BLANK, "/start", "/join", "/end"}

\* str.strip() on the texts above
Strip(t) == CASE t = BLANK -> ""
              [] t = PADDED -> "abc123"
              [] OTHER -> t

\* str.startswith('/')
StartsWithSlash(t) == t \in {"/start", "/join", "/end"}

\* aiogram Command(c): the text is the command /c
Command(t, c) == t = c

\* ------------------------------------------------------------------- state
VARIABLES users,          \* dict user_id -> name
          users_keys,     \* insertion order of the keys of users
          sessions,       \* dict id -> id
          waitlist,       \* list of ids
          history,        \* dict id -> list of lines
          awaiting_name,  \* keys of dict awaiting_name
          tasks           \* join_chat / mentor_join invocations in flight (SpecConc)

vars == <<users, users_keys, sessions, waitlist, history, awaiting_name, tasks>>

\* ------------------------------------------------------------ dict helpers
EmptyDict == [x \in {} |-> None]
DictSet(d, k, v) == [x \in (DOMAIN d) \cup {k} |-> IF x = k THEN v ELSE d[x]]
DictPop(d, k) == [x \in (DOMAIN d) \ {k} |-> d[x]]
DictGet(d, k) == IF k \in DOMAIN d THEN d[k] ELSE None
KeysAdd(keys, k) == IF \E n \in 1..Len(keys) : keys[n] = k THEN keys ELSE Append(keys, k)
InList(l, x) == \E n \in 1..Len(l) : l[n] = x

\* the state as one record, so that a handler is a function state -> state;
\* outbox is what the handler has sent so far, in order, and raised the
\* exception that ended it (None: it returned)
Cur == [users |-> users, users_keys |-> users_keys, sessions |-> sessions,
        waitlist |-> waitlist, history |-> history,
        awaiting_name |-> awaiting_name,
        outbox |-> <<>>, raised |-> None]

\* the attributes of the bot take the values the handler result s holds
ApplyBroker(s) == /\ users' = s.users
                  /\ users_keys' = s.users_keys
                  /\ sessions' = s.sessions
                  /\ waitlist' = s.waitlist
                  /\ history' = s.history
                  /\ awaiting_name' = s.awaiting_name

\* a handler run from start to end as one step
Apply(s) == ApplyBroker(s) /\ UNCHANGED tasks

\* bot.send_message(to, ...) / message.answer(...) / callback.answer(...)
Msg(to, kind, text) == [to |-> to, kind |-> kind, text |-> text]
Send(s, to, kind, text) == [s EXCEPT !.outbox = Append(@, Msg(to, kind, text))]

\* self.users[uid] = name
SetUser(s, uid, name) == [s EXCEPT !.users = DictSet(@, uid, name),
                                   !.users_keys = KeysAdd(@, uid)]
\* self.history[uid] = []
ResetHistory(s, uid) == [s EXCEPT !.history = DictSet(@, uid, <<>>)]

Init == /\ users = EmptyDict
        /\ users_keys = <<>>
        /\ sessions = EmptyDict
        /\ waitlist = <<>>
        /\ history = EmptyDict
        /\ awaiting_name = {}
        /\ tasks = <<>>

\* ---------------------------------------------------------------- handlers
\* Python truthiness: "not name" of a name or None, "not user_id" of an id or None
\* (None as an id is 0 here: identities are 1, 2, ...)
FalsyName(x) == x = None \/ x = ""
FalsyId(x) == x = 0
GetId(d, k) == IF k \in DOMAIN d THEN d[k] ELSE 0

send_welcome(s, i) ==
    IF i = MENTOR_ID THEN Send(s, i, "welcome_mentor", "")
    ELSE IF i \in DOMAIN s.users THEN Send(s, i, "welcome_registered", "")
    ELSE Send(s, i, "welcome_new", "")

enter_school(s, i) ==
    Send(Send(s, i, "ask_password", ""), i, "cb_answer", "")

\* check_password that registers an identity without username at once
check_password_NoChoice(s, i, t) ==
    IF t = ACCESS_PASSWORD THEN
        IF i = MENTOR_ID THEN
            LET name == IF Username(i) # None THEN Username(i) ELSE MENTOR_FALLBACK IN
            Send(ResetHistory(SetUser(s, i, name), i), i, "password_ok_mentor", "")
        ELSE IF Username(i) = None THEN
            Send(ResetHistory(SetUser(s, i, ANONYMOUS), i), i, "choose_name", "")
        ELSE
            Send(ResetHistory(SetUser(s, i, Username(i)), i), i, "registered", "")
    ELSE Send(s, i, "wrong_password", "")

check_password(s, i, t) ==
    IF t = ACCESS_PASSWORD THEN
        IF i = MENTOR_ID THEN
            LET name == IF Username(i) # None THEN Username(i) ELSE MENTOR_FALLBACK IN
            Send(ResetHistory(SetUser(s, i, name), i), i, "password_ok_mentor", "")
        ELSE IF Username(i) = None THEN
            Send(s, i, "choose_name", "")
        ELSE
            Send(ResetHistory(SetUser(s, i, Username(i)), i), i, "registered", "")
    ELSE Send(s, i, "wrong_password", "")

\* set_custom_name that takes message.text without strip()
set_custom_name_NoStrip(s, i, t) ==
    IF i \in s.awaiting_name THEN
        LET chosen_name == t IN
        IF chosen_name = "" THEN Send(s, i, "name_empty", "")
        ELSE LET r == ResetHistory(SetUser(s, i, chosen_name), i) IN
             Send([r EXCEPT !.awaiting_name = @ \ {i}], i, "logged_in_as", chosen_name)
    ELSE s

set_custom_name(s, i, t) ==
    IF i \in s.awaiting_name THEN
        LET chosen_name == Strip(t) IN
        IF chosen_name = "" THEN Send(s, i, "name_empty", "")
        ELSE LET r == ResetHistory(SetUser(s, i, chosen_name), i) IN
             Send([r EXCEPT !.awaiting_name = @ \ {i}], i, "logged_in_as", chosen_name)
    ELSE s

waiting_message(s, i) == Send(s, i, "already_registered", "")

\* call_mentor without the "user_id not in self.waitlist" test
call_mentor_AlwaysAppend(s, i) ==
    LET username == DictGet(s.users, i) IN
    IF FalsyName(username) THEN
        Send(Send(s, i, "please_register", ""), i, "cb_answer", "")
    ELSE IF MENTOR_ID \in DOMAIN s.sessions THEN
        Send(Send([s EXCEPT !.waitlist = Append(@, i)],
                  MENTOR_ID, "added_to_waitlist", username),
             i, "cb_answer_queued", "")
    ELSE
        Send(Send(s, MENTOR_ID, "calls_you", username), i, "cb_answer_sent", "")

\* call_mentor that pairs the requester at once when no pairing is active
call_mentor_PairsWhenIdle(s, i) ==
    LET username == DictGet(s.users, i) IN
    IF FalsyName(username) THEN
        Send(Send(s, i, "please_register", ""), i, "cb_answer", "")
    ELSE IF MENTOR_ID \in DOMAIN s.sessions THEN
        IF ~InList(s.waitlist, i) THEN
            Send(Send([s EXCEPT !.waitlist = Append(@, i)],
                      MENTOR_ID, "added_to_waitlist", username),
                 i, "cb_answer_queued", "")
        ELSE
            Send(Send(s, i, "already_queued", ""), i, "cb_answer_queued", "")
    ELSE
        Send(Send([s EXCEPT !.sessions = DictSet(DictSet(@, MENTOR_ID, i), i, MENTOR_ID)],
                  MENTOR_ID, "calls_you", username), i, "cb_answer_sent", "")

\* call_mentor without the "if not username" test
call_mentor_NoRegistrationCheck(s, i) ==
    LET username == DictGet(s.users, i) IN
    IF MENTOR_ID \in DOMAIN s.sessions THEN
        IF ~InList(s.waitlist, i) THEN
            Send(Send([s EXCEPT !.waitlist = Append(@, i)],
                      MENTOR_ID, "added_to_waitlist", username),
                 i, "cb_answer_queued", "")
        ELSE
            Send(Send(s, i, "already_queued", ""), i, "cb_answer_queued", "")
    ELSE
        Send(Send(s, MENTOR_ID, "calls_you", username), i, "cb_answer_sent", "")

call_mentor(s, i) ==
    LET username == DictGet(s.users, i) IN
    IF FalsyName(username) THEN
        Send(Send(s, i, "please_register", ""), i, "cb_answer", "")
    ELSE IF MENTOR_ID \in DOMAIN s.sessions THEN
        IF ~InList(s.waitlist, i) THEN
            Send(Send([s EXCEPT !.waitlist = Append(@, i)],
                      MENTOR_ID, "added_to_waitlist", username),
                 i, "cb_answer_queued", "")
        ELSE
            Send(Send(s, i, "already_queued", ""), i, "cb_answer_queued", "")
    ELSE
        Send(Send(s, MENTOR_ID, "calls_you", username), i, "cb_answer_sent", "")

use_anonymous(s, i) ==
    Send(Send(ResetHistory(SetUser(s, i, ANONYMOUS), i), i, "logged_in_as", ANONYMOUS),
         i, "cb_answer", "")

enter_custom_name(s, i) ==
    Send(Send([s EXCEPT !.awaiting_name = @ \cup {i}], i, "enter_name", ""),
         i, "cb_answer", "")

\* lines 268-271: both pairing entries, then the two notices
Pair(s, i, user_id) ==
    LET r == [s EXCEPT !.sessions = DictSet(DictSet(@, MENTOR_ID, user_id),
                                            user_id, MENTOR_ID)] IN
    Send(Send(r, i, "connected_to", DictGet(s.users, user_id)),
         user_id, "mentor_joined", "")

\* join_chat with waitlist.pop() in place of waitlist.pop(0)
join_chat_PopLast(s, i) ==
    IF i # MENTOR_ID THEN Send(s, i, "no_mentor_rights", "")
    ELSE IF MENTOR_ID \in DOMAIN s.sessions THEN Send(s, i, "finish_current_chat", "")
    ELSE IF s.waitlist # <<>> THEN
        Pair([s EXCEPT !.waitlist = SubSeq(@, 1, Len(@) - 1)], i,
             s.waitlist[Len(s.waitlist)])
    ELSE
        LET waiting == SelectSeq(s.users_keys,
                         LAMBDA uid : uid \notin DOMAIN s.sessions /\ uid # MENTOR_ID) IN
        IF waiting = <<>> THEN Send(s, i, "nobody_waiting", "")
        ELSE Pair(s, i, waiting[1])

\* join_chat whose fallback takes waiting[-1] in place of waiting[0]
join_chat_LastRegistered(s, i) ==
    IF i # MENTOR_ID THEN Send(s, i, "no_mentor_rights", "")
    ELSE IF MENTOR_ID \in DOMAIN s.sessions THEN Send(s, i, "finish_current_chat", "")
    ELSE IF s.waitlist # <<>> THEN
        Pair([s EXCEPT !.waitlist = Tail(@)], i, Head(s.waitlist))
    ELSE
        LET waiting == SelectSeq(s.users_keys,
                         LAMBDA uid : uid \notin DOMAIN s.sessions /\ uid # MENTOR_ID) IN
        IF waiting = <<>> THEN Send(s, i, "nobody_waiting", "")
        ELSE Pair(s, i, waiting[Len(waiting)])

\* join_chat that never looks at the waitlist and always takes the fallback
join_chat_IgnoreWaitlist(s, i) ==
    IF i # MENTOR_ID THEN Send(s, i, "no_mentor_rights", "")
    ELSE IF MENTOR_ID \in DOMAIN s.sessions THEN Send(s, i, "finish_current_chat", "")
    ELSE
        LET waiting == SelectSeq(s.users_keys,
                         LAMBDA uid : uid \notin DOMAIN s.sessions /\ uid # MENTOR_ID) IN
        IF waiting = <<>> THEN Send(s, i, "nobody_waiting", "")
        ELSE Pair(s, i, waiting[1])

join_chat(s, i) ==
    IF i # MENTOR_ID THEN Send(s, i, "no_mentor_rights", "")
    ELSE IF MENTOR_ID \in DOMAIN s.sessions THEN Send(s, i, "finish_current_chat", "")
    ELSE IF s.waitlist # <<>> THEN
        Pair([s EXCEPT !.waitlist = Tail(@)], i, Head(s.waitlist))
    ELSE
        LET waiting == SelectSeq(s.users_keys,
                         LAMBDA uid : uid \notin DOMAIN s.sessions /\ uid # MENTOR_ID) IN
        IF waiting = <<>> THEN Send(s, i, "nobody_waiting", "")
        ELSE Pair(s, i, waiting[1])

mentor_join(s, i) ==
    IF i # MENTOR_ID THEN Send(s, i, "cb_alert_no_mentor_rights", "")
    ELSE Send(join_chat(s, i), i, "cb_answer", "")

forward_to_mentor(s, i, t) ==
    IF i \notin DOMAIN s.sessions THEN Send(s, i, "wait_for_mentor", "")
    ELSE IF i \notin DOMAIN s.history THEN [s EXCEPT !.raised = "KeyError"]
    ELSE Send([s EXCEPT !.history[i] = Append(@, <<"participant", t>>)],
              s.sessions[i], "from_participant", t)

forward_to_user(s, i, t) ==
    IF MENTOR_ID \notin DOMAIN s.sessions THEN Send(s, i, "no_active_participant", "")
    ELSE LET user_id == GetId(s.sessions, MENTOR_ID) IN
         IF FalsyId(user_id) THEN Send(s, i, "no_active_participant", "")
         ELSE LET old == IF user_id \in DOMAIN s.history THEN s.history[user_id]
                         ELSE <<>> IN
              Send([s EXCEPT !.history = DictSet(@, user_id,
                                                 Append(old, <<"mentor", t>>))],
                   user_id, "from_mentor", t)

\* end_chat without self.history.pop(user_id, None)
end_chat_KeepHistory(s, i) ==
    IF i # MENTOR_ID THEN Send(s, i, "only_mentor_ends", "")
    ELSE IF MENTOR_ID \in DOMAIN s.sessions THEN
        LET user_id == GetId(s.sessions, MENTOR_ID)
            s1 == [s EXCEPT !.sessions = DictPop(@, MENTOR_ID)]
            s2 == IF FalsyId(user_id) THEN s1
                  ELSE Send([s1 EXCEPT !.sessions = DictPop(@, user_id)],
                            user_id, "chat_ended", "")
            s3 == Send(s2, i, "chat_finished", "")
        IN IF s3.waitlist # <<>>
           THEN Send(s3, MENTOR_ID, "next_waiting", DictGet(s3.users, s3.waitlist[1]))
           ELSE s3
    ELSE Send(s, i, "no_active_chat", "")

\* end_chat that connects the head of the waitlist after ending the chat
end_chat_AutoConnect(s, i) ==
    IF i # MENTOR_ID THEN Send(s, i, "only_mentor_ends", "")
    ELSE IF MENTOR_ID \in DOMAIN s.sessions THEN
        LET user_id == GetId(s.sessions, MENTOR_ID)
            s1 == [s EXCEPT !.sessions = DictPop(@, MENTOR_ID)]
            s2 == IF FalsyId(user_id) THEN s1
                  ELSE Send([s1 EXCEPT !.sessions = DictPop(@, user_id),
                                       !.history = DictPop(@, user_id)],
                            user_id, "chat_ended", "")
            s3 == Send(s2, i, "chat_finished", "")
        IN IF s3.waitlist # <<>>
           THEN Pair([s3 EXCEPT !.waitlist = Tail(@)], i, Head(s3.waitlist))
           ELSE s3
    ELSE Send(s, i, "no_active_chat", "")

end_chat(s, i) ==
    IF i # MENTOR_ID THEN Send(s, i, "only_mentor_ends", "")
    ELSE IF MENTOR_ID \in DOMAIN s.sessions THEN
        LET user_id == GetId(s.sessions, MENTOR_ID)
            s1 == [s EXCEPT !.sessions = DictPop(@, MENTOR_ID)]
            s2 == IF FalsyId(user_id) THEN s1
                  ELSE Send([s1 EXCEPT !.sessions = DictPop(@, user_id),
                                       !.history = DictPop(@, user_id)],
                            user_id, "chat_ended", "")
            s3 == Send(s2, i, "chat_finished", "")
        IN IF s3.waitlist # <<>>
           THEN Send(s3, MENTOR_ID, "next_waiting", DictGet(s3.users, s3.waitlist[1]))
           ELSE s3
    ELSE Send(s, i, "no_active_chat", "")

mentor_end(s, i) ==
    IF i # MENTOR_ID THEN Send(s, i, "cb_alert_no_mentor_rights", "")
    ELSE Send(end_chat(s, i), i, "cb_answer", "")

\* -------------------------------------------------------------- dispatcher
\* register_handlers: the message handlers in registration order; the first
\* whose filter accepts the message handles it, "none" when no filter does
Route(i, t) ==
    IF Command(t, "/start") THEN "send_welcome"
    ELSE IF i \notin DOMAIN users /\ i # MENTOR_ID /\ i \notin awaiting_name
        THEN "check_password"
    ELSE IF i \in DOMAIN users /\ i \notin DOMAIN sessions /\ i # MENTOR_ID
        THEN "waiting_message"
    ELSE IF i \in DOMAIN users /\ i \in DOMAIN sessions THEN "forward_to_mentor"
    ELSE IF Command(t, "/join") THEN "join_chat"
    ELSE IF Command(t, "/end") THEN "end_chat"
    ELSE IF i = MENTOR_ID /\ MENTOR_ID \in DOMAIN sessions /\ ~StartsWithSlash(t)
        THEN "forward_to_user"
    ELSE IF i \in awaiting_name THEN "set_custom_name"
    ELSE "none"

\* what the dispatcher makes of a message / of a callback query in the
\* current state: the state the chosen handler leaves, with what it sent
OnMessage(i, t) ==
    LET h == Route(i, t) IN
    CASE h = "send_welcome" -> send_welcome(Cur, i)
      [] h = "check_password" -> check_password(Cur, i, t)
      [] h = "waiting_message" -> waiting_message(Cur, i)
      [] h = "forward_to_mentor" -> forward_to_mentor(Cur, i, t)
      [] h = "join_chat" -> join_chat(Cur, i)
      [] h = "end_chat" -> end_chat(Cur, i)
      [] h = "forward_to_user" -> forward_to_user(Cur, i, t)
      [] h = "set_custom_name" -> set_custom_name(Cur, i, t)
      [] OTHER -> Cur

OnCallback(i, data) ==
    CASE data = "enter_school" -> enter_school(Cur, i)
      [] data = "call_mentor" -> call_mentor(Cur, i)
      [] data = "use_anonymous" -> use_anonymous(Cur, i)
      [] data = "enter_custom_name" -> enter_custom_name(Cur, i)
      [] data = "mentor_join" -> mentor_join(Cur, i)
      [] data = "mentor_end" -> mentor_end(Cur, i)
      [] OTHER -> Cur

\* transcript lines held by all the histories together
RECURSIVE Lines(_, _)
Lines(h, S) == IF S = {} THEN 0
               ELSE LET k == CHOOSE k \in S : TRUE IN Len(h[k]) + Lines(h, S \ {k})

\* a relay may still append a line (model bound)
Room == Lines(history, DOMAIN history) < MaxHist

MsgSendWelcome(i, t) == Route(i, t) = "send_welcome" /\ Apply(OnMessage(i, t))
MsgCheckPassword(i, t) == Route(i, t) = "check_password" /\ Apply(OnMessage(i, t))
MsgWaitingMessage(i, t) == Route(i, t) = "waiting_message" /\ Apply(OnMessage(i, t))
MsgForwardToMentor(i, t) ==
    Route(i, t) = "forward_to_mentor" /\ Room /\ Apply(OnMessage(i, t))
MsgJoinChat(i, t) == Route(i, t) = "join_chat" /\ Apply(OnMessage(i, t))
MsgEndChat(i, t) == Route(i, t) = "end_chat" /\ Apply(OnMessage(i, t))
MsgForwardToUser(i, t) ==
    Route(i, t) = "forward_to_user" /\ Room /\ Apply(OnMessage(i, t))
MsgSetCustomName(i, t) == Route(i, t) = "set_custom_name" /\ Apply(OnMessage(i, t))
MsgUnhandled(i, t) == Route(i, t) = "none" /\ Apply(OnMessage(i, t))

Message(i, t) ==
    \/ MsgSendWelcome(i, t)
    \/ MsgCheckPassword(i, t)
    \/ MsgWaitingMessage(i, t)
    \/ MsgForwardToMentor(i, t)
    \/ MsgJoinChat(i, t)
    \/ MsgEndChat(i, t)
    \/ MsgForwardToUser(i, t)
    \/ MsgSetCustomName(i, t)
    \/ MsgUnhandled(i, t)

CbEnterSchool(i) == Apply(OnCallback(i, "enter_school"))
CbCallMentor(i) == Apply(OnCallback(i, "call_mentor"))
CbUseAnonymous(i) == Apply(OnCallback(i, "use_anonymous"))
CbEnterCustomName(i) == i \in NameEntrants /\ Apply(OnCallback(i, "enter_custom_name"))
CbMentorJoin(i) == Apply(OnCallback(i, "mentor_join"))
CbMentorEnd(i) == Apply(OnCallback(i, "mentor_end"))

Callback(i) ==
    \/ CbEnterSchool(i)
    \/ CbCallMentor(i)
    \/ CbUseAnonymous(i)
    \/ CbEnterCustomName(i)
    \/ CbMentorJoin(i)
    \/ CbMentorEnd(i)

Next == \E i \in Ids : (\E t \in Texts : Message(i, t)) \/ Callback(i)

Spec == Init /\ [][Next]_vars

\* ------------------------------------------------------------ a fair mentor
\* The events that read or write the waitlist and the pairing, or that
\* register an identity: the password, use_anonymous, call_mentor, /join,
\* /end, mentor_join and mentor_end, from every identity; with a mentor that
\* keeps pressing mentor_end while a pairing is active and mentor_join while
\* none is: a step of either button that changes the state is not postponed
\* for ever.
NextLive ==
    \E i \in Ids :
        \/ MsgCheckPassword(i, ACCESS_PASSWORD)
        \/ MsgJoinChat(i, "/join")
        \/ MsgEndChat(i, "/end")
        \/ CbCallMentor(i)
        \/ CbUseAnonymous(i)
        \/ CbMentorJoin(i)
        \/ CbMentorEnd(i)

SpecLive ==
    /\ Init
    /\ [][NextLive]_vars
    /\ WF_vars(CbMentorEnd(MENTOR_ID))
    /\ WF_vars(CbMentorJoin(MENTOR_ID))

\* --------------------------------------------------- concurrent handler tasks
\* The dispatcher runs each update's handler as its own asyncio task.  A task
\* runs without interruption from one await to the next; the only awaits of
\* the handlers are the outbound sends (message.answer, bot.send_message,
\* callback.answer).  A join_chat / mentor_join invocation of the mentor is a
\* task in tasks: pc "start" before its first statement, "write" and "await"
\* as in join_chat_segment, user_id the local of join_chat (0: not bound),
\* pending the sends it has still to get through, the first being the one it
\* is suspended in.  The other handlers of SpecConc touch the attributes only
\* before their first await, so their step is that first segment.
MaxTasks == 2            \* join invocations of the mentor in flight together

NewTask(via) == [via |-> via, pc |-> "start", user_id |-> 0, pending |-> <<>>]

\* join_chat with an await (a notice to the mentor) between the choice of
\* user_id and the two writes of self.sessions
join_chat_segment_AwaitBeforeWrite(s, tk) ==
    IF tk.pc = "start" THEN
        IF MENTOR_ID \in DOMAIN s.sessions THEN
            LET r == IF tk.via = "mentor_join" THEN mentor_join(s, MENTOR_ID)
                     ELSE join_chat(s, MENTOR_ID) IN
            [s |-> r, tk |-> [tk EXCEPT !.pc = "await", !.pending = r.outbox]]
        ELSE IF s.waitlist # <<>> THEN
            [s |-> [s EXCEPT !.waitlist = Tail(@)],
             tk |-> [tk EXCEPT !.pc = "write", !.user_id = Head(s.waitlist)]]
        ELSE
            LET waiting == SelectSeq(s.users_keys,
                             LAMBDA uid : uid \notin DOMAIN s.sessions /\ uid # MENTOR_ID) IN
            IF waiting = <<>>
            THEN [s |-> s,
                  tk |-> [tk EXCEPT !.pc = "await",
                             !.pending = <<Msg(MENTOR_ID, "nobody_waiting", "")>>]]
            ELSE [s |-> s, tk |-> [tk EXCEPT !.pc = "write", !.user_id = waiting[1]]]
    ELSE IF tk.pc = "write" THEN
        LET r == Pair(s, MENTOR_ID, tk.user_id) IN
        [s |-> r, tk |-> [tk EXCEPT !.pc = "await", !.pending = r.outbox]]
    ELSE
        [s |-> s,
         tk |-> [tk EXCEPT !.pc = IF Len(tk.pending) <= 1 THEN "done" ELSE "await",
                           !.pending = Tail(@)]]

\* one segment of a join invocation: from where task tk stands to its next
\* await (pc "await") or to its return (pc "done").  join_chat has no await
\* between line 251 and line 270: the test of self.sessions, the pop or the
\* fallback and both writes of self.sessions are one segment.
join_chat_segment(s, tk) ==
    IF tk.pc = "start" THEN
        LET r == IF tk.via = "mentor_join" THEN mentor_join(s, MENTOR_ID)
                 ELSE join_chat(s, MENTOR_ID) IN
        [s |-> r,
         tk |-> [tk EXCEPT !.pc = "await",
                           !.user_id = IF r.sessions # s.sessions
                                       THEN r.sessions[MENTOR_ID] ELSE 0,
                           !.pending = r.outbox]]
    ELSE
        [s |-> s,
         tk |-> [tk EXCEPT !.pc = IF Len(tk.pending) <= 1 THEN "done" ELSE "await",
                           !.pending = Tail(@)]]

RemoveAt(q, n) == SubSeq(q, 1, n - 1) \o SubSeq(q, n + 1, Len(q))

\* the mentor sends /join, or presses the mentor_join button: a new task
ConcStartJoinChat ==
    /\ Len(tasks) < MaxTasks
    /\ Route(MENTOR_ID, "/join") = "join_chat"
    /\ tasks' = Append(tasks, NewTask("join_chat"))
    /\ UNCHANGED <<users, users_keys, sessions, waitlist, history, awaiting_name>>

ConcStartMentorJoin ==
    /\ Len(tasks) < MaxTasks
    /\ tasks' = Append(tasks, NewTask("mentor_join"))
    /\ UNCHANGED <<users, users_keys, sessions, waitlist, history, awaiting_name>>

\* the event loop runs task n to its next await or to its return
ConcResume(n) ==
    LET o == join_chat_segment(Cur, tasks[n]) IN
    /\ ApplyBroker(o.s)
    /\ tasks' = IF o.tk.pc = "done" THEN RemoveAt(tasks, n)
                ELSE [tasks EXCEPT ![n] = o.tk]

\* the other events of the pairing: a participant not yet registered sends
\* the password or presses use_anonymous, a participant presses call_mentor,
\* the mentor presses mentor_end
ConcCheckPassword(p) ==
    /\ Route(p, ACCESS_PASSWORD) = "check_password"
    /\ Apply(OnMessage(p, ACCESS_PASSWORD))

ConcUseAnonymous(p) ==
    /\ p \notin DOMAIN users
    /\ Apply(OnCallback(p, "use_anonymous"))

ConcCallMentor(p) == Apply(OnCallback(p, "call_mentor"))

ConcMentorEnd == Apply(OnCallback(MENTOR_ID, "mentor_end"))

NextConc ==
    \/ ConcStartJoinChat
    \/ ConcStartMentorJoin
    \/ \E n \in 1..Len(tasks) : ConcResume(n)
    \/ \E p \in Participants :
          \/ ConcCheckPassword(p)
          \/ ConcUseAnonymous(p)
          \/ ConcCallMentor(p)
    \/ ConcMentorEnd

SpecConc == Init /\ [][NextConc]_vars

\* ------------------------------------------------------- shared vocabulary
\* the transcript lines history holds for p (none when p has no entry)
HistLines(h, p) == IF p \in DOMAIN h THEN h[p] ELSE <<>>

\* the handler result r leaves every part of the state as it is
SameState(r) == /\ r.users = users
                /\ r.users_keys = users_keys
                /\ r.sessions = sessions
                /\ r.waitlist = waitlist
                /\ r.history = history
                /\ r.awaiting_name = awaiting_name

\* the handler result r sent something to identity i
NoticeTo(r, i) == \E n \in 1..Len(r.outbox) : r.outbox[n].to = i
Sent(r, to, kind, text) == \E n \in 1..Len(r.outbox) : r.outbox[n] = Msg(to, kind, text)

\* a rejected operation: state unchanged, a notice to the requester
Rejected(r, i) == SameState(r) /\ NoticeTo(r, i) /\ r.raised = None

\* ------------------------------------------------------------------ claims
\* C1: sessions is empty or holds exactly the two entries mentor -> p and
\* p -> mentor of one participant p.
C1_OnePairing ==
    \/ sessions = EmptyDict
    \/ \E p \in Participants :
          sessions = DictSet(DictSet(EmptyDict, MENTOR_ID, p), p, MENTOR_ID)

\* C2: the identity paired with the mentor is never in the waitlist.
C2_PairedNotWaiting ==
    \A i \in Ids : (MENTOR_ID \in DOMAIN sessions /\ sessions[MENTOR_ID] = i)
                      => ~InList(waitlist, i)

\* C3: the waitlist holds each identity at most once, and call_mentor by an
\* identity already queued while a pairing is active leaves the waitlist
\* unchanged and sends only to the requester, the already-queued notice included.
C3_NoDuplicates ==
    /\ \A m, n \in 1..Len(waitlist) : m # n => waitlist[m] # waitlist[n]
    /\ \A i \in Ids :
         (InList(waitlist, i) /\ MENTOR_ID \in DOMAIN sessions) =>
            LET r == OnCallback(i, "call_mentor") IN
            /\ r.waitlist = waitlist
            /\ \A n \in 1..Len(r.outbox) : r.outbox[n].to = i
            /\ Sent(r, i, "already_queued", "")

\* C3 witness: a pairing is active and two identities are queued.
C3_Witness == MENTOR_ID \in DOMAIN sessions /\ Len(waitlist) >= 2

\* C4: every step that forms a pairing while the waitlist is non-empty pairs
\* the mentor with the head of the waitlist and leaves the rest of the
\* waitlist in order; the waitlist only ever grows at its end or loses its
\* head to such a step.
C4_FIFO ==
    [][ /\ (MENTOR_ID \notin DOMAIN sessions /\ MENTOR_ID \in DOMAIN sessions'
              /\ waitlist # <<>>)
            => (sessions'[MENTOR_ID] = Head(waitlist) /\ waitlist' = Tail(waitlist))
        /\ \/ waitlist' = waitlist
           \/ \E i \in Ids : waitlist' = Append(waitlist, i)
           \/ /\ waitlist # <<>>
              /\ waitlist' = Tail(waitlist)
              /\ MENTOR_ID \notin DOMAIN sessions
              /\ MENTOR_ID \in DOMAIN sessions'
      ]_vars

\* C4 witness: participant 3 is paired and the waitlist is empty although
\* participant 2 registered first and is unpaired, so 3 was taken from the
\* waitlist and not by the registration-order fallback.
C4_Witness ==
    /\ MENTOR_ID \in DOMAIN sessions
    /\ sessions[MENTOR_ID] = 3
    /\ waitlist = <<>>
    /\ Len(users_keys) >= 2
    /\ users_keys[1] = 2

\* C5: use_anonymous, enter_custom_name and set_custom_name coming from a
\* participant that is not in PendingName because it is already registered
\* leave users, awaiting_name and every history unchanged.
C5_OnlyFromPendingName ==
    \A i \in Participants \cap DOMAIN users :
        LET a == OnCallback(i, "use_anonymous")
            b == OnCallback(i, "enter_custom_name")
            Same(r) == r.users = users /\ r.awaiting_name = awaiting_name
                          /\ r.history = history
        IN /\ Same(a)
           /\ Same(b)
           /\ \A t \in Texts : Route(i, t) = "set_custom_name" => Same(OnMessage(i, t))

\* C6: no participant is at once in users and in awaiting_name.
C6_OneState == \A i \in Participants : ~(i \in DOMAIN users /\ i \in awaiting_name)

\* C7: a registered participant stays registered and is not put into the
\* pending-name set again; a pending participant does not fall back to
\* unauthenticated.
C7_NoRegress ==
    [][ \A i \in Participants :
          /\ i \in DOMAIN users =>
                (i \in DOMAIN users' /\ (i \notin awaiting_name => i \notin awaiting_name'))
          /\ (i \in awaiting_name /\ i \notin DOMAIN users) =>
                (i \in awaiting_name' \/ i \in DOMAIN users')
      ]_vars

\* C8: a participant that is not paired holds no transcript lines; every
\* registration of a participant leaves it an empty history; mentor_end leaves
\* the participant it unpairs without lines and mentor_connect pairs a
\* participant whose history holds no lines.
C8_FreshHistory ==
    \A p \in Participants :
        /\ p \notin DOMAIN sessions => HistLines(history, p) = <<>>
        /\ LET a == OnCallback(p, "use_anonymous") IN
              p \in DOMAIN a.history /\ a.history[p] = <<>>
        /\ \A t \in Texts :
              LET r == OnMessage(p, t) IN
              (p \notin DOMAIN users /\ p \in DOMAIN r.users) =>
                  (p \in DOMAIN r.history /\ r.history[p] = <<>>)
        /\ \A d \in {"mentor_end", "mentor_join"} :
              LET r == OnCallback(MENTOR_ID, d) IN
              ((p \in DOMAIN sessions) # (p \in DOMAIN r.sessions)) =>
                  HistLines(r.history, p) = <<>>

\* C8 witness: a participant is paired again after mentor_end removed its
\* history (it is registered, paired, and has no history entry).
C8_Witness ==
    \E p \in Participants :
        p \in DOMAIN users /\ p \in DOMAIN sessions /\ p \notin DOMAIN history

\* C9: for a paired participant p, forward_to_mentor returns without an
\* exception, appends exactly one participant-tagged line to p's history and
\* sends the text to the mentor.
C9_RelayToMentor ==
    \A p \in Participants : \A t \in Texts :
        (p \in DOMAIN sessions /\ Route(p, t) = "forward_to_mentor") =>
            LET r == OnMessage(p, t) IN
            /\ r.raised = None
            /\ HistLines(r.history, p) = Append(HistLines(history, p), <<"participant", t>>)
            /\ Sent(r, MENTOR_ID, "from_participant", t)

\* C10: every rejected operation leaves the state unchanged and sends a
\* notice to the requester.
C10_RejectionsNotify ==
    \* wrong password
    /\ \A i \in Participants : \A t \in Texts \ {ACCESS_PASSWORD} :
          Route(i, t) = "check_password" => Rejected(OnMessage(i, t), i)
    \* request_mentor by an unregistered identity
    /\ \A i \in Ids \ DOMAIN users : Rejected(OnCallback(i, "call_mentor"), i)
    \* mentor_connect / mentor_end by a non-mentor
    /\ \A i \in Participants :
          /\ Rejected(OnCallback(i, "mentor_join"), i)
          /\ Rejected(OnCallback(i, "mentor_end"), i)
          /\ Route(i, "/join") = "join_chat" => Rejected(OnMessage(i, "/join"), i)
          /\ Route(i, "/end") = "end_chat" => Rejected(OnMessage(i, "/end"), i)
    \* mentor_connect while a pairing is active
    /\ MENTOR_ID \in DOMAIN sessions =>
          Rejected(OnCallback(MENTOR_ID, "mentor_join"), MENTOR_ID)
    \* mentor_connect with nobody to connect to
    /\ (MENTOR_ID \notin DOMAIN sessions /\ waitlist = <<>>
          /\ \A p \in Participants : p \notin DOMAIN users \/ p \in DOMAIN sessions) =>
          Rejected(OnCallback(MENTOR_ID, "mentor_join"), MENTOR_ID)
    \* mentor_end while idle
    /\ MENTOR_ID \notin DOMAIN sessions =>
          Rejected(OnCallback(MENTOR_ID, "mentor_end"), MENTOR_ID)
    \* relay_to_mentor while unpaired
    /\ \A p \in Participants : \A t \in Texts :
          (p \in DOMAIN users /\ p \notin DOMAIN sessions /\ ~StartsWithSlash(t)) =>
              Rejected(OnMessage(p, t), p)
    \* relay_to_participant while unpaired
    /\ \A t \in Texts :
          (MENTOR_ID \notin DOMAIN sessions /\ ~StartsWithSlash(t)) =>
              Rejected(OnMessage(MENTOR_ID, t), MENTOR_ID)
\* C11: while a pairing is active, mentor_end (the button, and /end where
\* end_chat handles it) leaves sessions empty, the waitlist, users and the
\* registration order as they were, and with a non-empty waitlist it sends
\* the mentor the next-waiting notice naming the head of the waitlist.
C11_EndLeavesIdle ==
    MENTOR_ID \in DOMAIN sessions =>
        \A r \in {OnCallback(MENTOR_ID, "mentor_end")} \cup
                 (IF Route(MENTOR_ID, "/end") = "end_chat"
                  THEN {OnMessage(MENTOR_ID, "/end")} ELSE {}) :
            /\ r.sessions = EmptyDict
            /\ r.waitlist = waitlist
            /\ r.users = users
            /\ r.users_keys = users_keys
            /\ r.raised = None
            /\ waitlist # <<>> =>
                  Sent(r, MENTOR_ID, "next_waiting", DictGet(users, waitlist[1]))

\* C11 witness: no pairing although the waitlist is non-empty (the waitlist
\* only grows during a pairing, so a mentor_end has just left this state).
C11_Witness == sessions = EmptyDict /\ waitlist # <<>>

\* C12: call_mentor never changes sessions; sessions changes only in
\* join_chat (and then from no pairing to a pairing) and in end_chat (and then
\* from a pairing to none).  With no pairing active, call_mentor by a
\* registered identity leaves the whole state unchanged, sends the mentor the
\* calls-you notice and sends nothing else but the answer to the callback.
C12_RequestKeepsPairing ==
    /\ \A i \in Ids :
          /\ \A d \in {"enter_school", "call_mentor", "use_anonymous", "enter_custom_name"} :
                OnCallback(i, d).sessions = sessions
          /\ \A t \in Texts :
                Route(i, t) \notin {"join_chat", "end_chat"} =>
                    OnMessage(i, t).sessions = sessions
          /\ \A r \in {OnCallback(i, "mentor_join"), join_chat(Cur, i)} :
                r.sessions # sessions =>
                    (MENTOR_ID \notin DOMAIN sessions /\ MENTOR_ID \in DOMAIN r.sessions)
          /\ \A r \in {OnCallback(i, "mentor_end"), end_chat(Cur, i)} :
                r.sessions # sessions =>
                    (MENTOR_ID \in DOMAIN sessions /\ MENTOR_ID \notin DOMAIN r.sessions)
    /\ \A i \in DOMAIN users :
          MENTOR_ID \notin DOMAIN sessions =>
              LET r == OnCallback(i, "call_mentor") IN
              /\ SameState(r)
              /\ r.raised = None
              /\ Sent(r, MENTOR_ID, "calls_you", users[i])
              /\ \A n \in 1..Len(r.outbox) :
                    \/ r.outbox[n].to = MENTOR_ID
                    \/ r.outbox[n] = Msg(i, "cb_answer_sent", "")

\* C12 witness: two registered participants, neither queued, and no pairing:
\* a call_mentor here only notifies the mentor.
C12_Witness ==
    /\ MENTOR_ID \notin DOMAIN sessions
    /\ Participants \subseteq DOMAIN users
    /\ waitlist = <<>>

\* position of a registered identity in the order of first registration
RegOrder(u) == CHOOSE n \in 1..Len(users_keys) : users_keys[n] = u

\* C13: the registration order lists every registered identity once, grows
\* only at its end and only by an identity that was not registered (so a
\* re-registration moves nobody); and with no pairing and an empty waitlist,
\* join_chat by the mentor pairs the mentor with the earliest-registered
\* identity among those registered, unpaired and not the mentor, and sends
\* the nobody-waiting notice, changing nothing, exactly when there is none.
C13_FirstRegisteredFallback ==
    /\ [][ \/ users_keys' = users_keys
           \/ \E i \in Ids \ DOMAIN users :
                 users_keys' = Append(users_keys, i) /\ i \in DOMAIN users' ]_vars
    /\ [] /\ Len(users_keys) = Cardinality(DOMAIN users)
          /\ \A u \in DOMAIN users : \E n \in 1..Len(users_keys) : users_keys[n] = u
          /\ (MENTOR_ID \notin DOMAIN sessions /\ waitlist = <<>>) =>
                LET cands == {u \in DOMAIN users : u \notin DOMAIN sessions /\ u # MENTOR_ID} IN
                \A r \in {OnCallback(MENTOR_ID, "mentor_join")} \cup
                         (IF Route(MENTOR_ID, "/join") = "join_chat"
                          THEN {OnMessage(MENTOR_ID, "/join")} ELSE {}) :
                    IF cands = {}
                    THEN /\ SameState(r)
                         /\ Sent(r, MENTOR_ID, "nobody_waiting", "")
                    ELSE LET first == CHOOSE u \in cands :
                                         \A v \in cands : RegOrder(u) <= RegOrder(v) IN
                         /\ r.sessions = DictSet(DictSet(sessions, MENTOR_ID, first),
                                                 first, MENTOR_ID)
                         /\ ~Sent(r, MENTOR_ID, "nobody_waiting", "")

\* C13 witness: participant 3 registered before participant 2, nobody is
\* queued, and the mentor is paired with 3 while 2 is unpaired.
C13_Witness ==
    /\ Len(users_keys) >= 2
    /\ users_keys[1] = 3
    /\ users_keys[2] = 2
    /\ waitlist = <<>>
    /\ MENTOR_ID \in DOMAIN sessions
    /\ sessions[MENTOR_ID] = 3
    /\ 2 \notin DOMAIN sessions

\* C14: when check_password handles the correct password of a participant
\* without username, the state is unchanged (the participant is not in users)
\* and the choice of names is sent to it, and use_anonymous after that puts
\* it into users under the anonymous label with an empty history; for a
\* participant with a username, check_password puts it into users under that
\* username with an empty history and changes nothing else.
C14_PasswordThenName ==
    \A i \in Participants :
        Route(i, ACCESS_PASSWORD) = "check_password" =>
            LET r == OnMessage(i, ACCESS_PASSWORD) IN
            IF Username(i) = None
            THEN /\ SameState(r)
                 /\ i \notin DOMAIN r.users
                 /\ Sent(r, i, "choose_name", "")
                 /\ LET a == use_anonymous(r, i) IN
                    /\ a.users = DictSet(users, i, ANONYMOUS)
                    /\ a.history = DictSet(history, i, <<>>)
                    /\ Sent(a, i, "logged_in_as", ANONYMOUS)
            ELSE /\ r.users = DictSet(users, i, Username(i))
                 /\ r.history = DictSet(history, i, <<>>)
                 /\ r.sessions = sessions
                 /\ r.waitlist = waitlist
                 /\ r.awaiting_name = awaiting_name
                 /\ Sent(r, i, "registered", "")

\* C14 witness: the participant without username is registered under the
\* anonymous label and the one with a username under that username, both
\* with an empty history.
C14_Witness ==
    /\ 2 \in DOMAIN users /\ users[2] = Username(2)
    /\ 3 \in DOMAIN users /\ users[3] = ANONYMOUS
    /\ 2 \in DOMAIN history /\ history[2] = <<>>
    /\ 3 \in DOMAIN history /\ history[3] = <<>>
    /\ awaiting_name = {}

\* C15: a text that is not a command, sent by a participant that is in
\* awaiting_name and not in users, is handled by set_custom_name; and when
\* set_custom_name handles a text, the sender is in awaiting_name, a text
\* that is blank leaves the whole state unchanged and is answered by the
\* name-is-empty notice, and any other text puts the sender into users under
\* the text without its surrounding blanks, gives it an empty history and
\* takes it out of awaiting_name, changing nothing else.
C15_CustomName ==
    \A i \in Ids : \A t \in Texts :
        /\ (i \in Participants /\ i \in awaiting_name /\ i \notin DOMAIN users
              /\ ~StartsWithSlash(t)) => Route(i, t) = "set_custom_name"
        /\ Route(i, t) = "set_custom_name" =>
              LET r == OnMessage(i, t) IN
              /\ i \in awaiting_name
              /\ IF t = BLANK
                 THEN SameState(r) /\ Sent(r, i, "name_empty", "")
                 ELSE /\ r.users = DictSet(users, i,
                                           IF t = PADDED THEN ACCESS_PASSWORD ELSE t)
                      /\ r.history = DictSet(history, i, <<>>)
                      /\ r.awaiting_name = awaiting_name \ {i}
                      /\ r.sessions = sessions
                      /\ r.waitlist = waitlist

\* C15 witness: the participant without username is registered under a name
\* it typed, with an empty history, and is no longer in awaiting_name.
C15_Witness ==
    /\ 3 \in DOMAIN users
    /\ users[3] = ACCESS_PASSWORD
    /\ 3 \in DOMAIN history
    /\ history[3] = <<>>
    /\ 3 \notin awaiting_name

\* C16: with join invocations of the mentor running as tasks that interleave
\* at their awaits, sessions is always empty or one mentor<->participant
\* pairing; while a pairing is active no step replaces it by another (sessions
\* changes only by losing the pairing); a task that runs its first segment
\* while a pairing is active changes nothing and goes on to the
\* finish-current-chat notice; a task that binds user_id has written both
\* entries of the pairing in the same step; and every step that shortens the
\* waitlist pops its head and writes the pairing with that head in that step.
C16_ConnectAtomic ==
    /\ [] \/ sessions = EmptyDict
          \/ \E p \in Participants :
                sessions = DictSet(DictSet(EmptyDict, MENTOR_ID, p), p, MENTOR_ID)
    /\ [][ /\ (MENTOR_ID \in DOMAIN sessions /\ sessions' # sessions) =>
                 MENTOR_ID \notin DOMAIN sessions'
           /\ \A n \in 1..Len(tasks) :
                 (tasks[n].pc = "start" /\ Len(tasks') = Len(tasks)
                    /\ tasks'[n] # tasks[n]) =>
                    /\ MENTOR_ID \in DOMAIN sessions =>
                          /\ UNCHANGED <<users, users_keys, sessions, waitlist,
                                         history, awaiting_name>>
                          /\ tasks'[n].user_id = 0
                          /\ tasks'[n].pending[1] =
                                Msg(MENTOR_ID, "finish_current_chat", "")
                    /\ tasks'[n].user_id # 0 =>
                          /\ MENTOR_ID \in DOMAIN sessions'
                          /\ sessions'[MENTOR_ID] = tasks'[n].user_id
                          /\ tasks'[n].user_id \in DOMAIN sessions'
                          /\ sessions'[tasks'[n].user_id] = MENTOR_ID
           /\ Len(waitlist') < Len(waitlist) =>
                 /\ waitlist' = Tail(waitlist)
                 /\ MENTOR_ID \notin DOMAIN sessions
                 /\ sessions' = DictSet(DictSet(EmptyDict, MENTOR_ID, Head(waitlist)),
                                        Head(waitlist), MENTOR_ID)
         ]_vars

\* C16 witness: two join invocations overlap; the first has paired the mentor
\* with the participant that is paired now and is suspended in a send, the
\* second ran meanwhile and is suspended in the finish-current-chat notice.
C16_Witness ==
    /\ Len(tasks) = 2
    /\ tasks[1].pc = "await"
    /\ tasks[1].user_id # 0
    /\ MENTOR_ID \in DOMAIN sessions
    /\ sessions[MENTOR_ID] = tasks[1].user_id
    /\ tasks[2].pc = "await"
    /\ tasks[2].pending # <<>>
    /\ tasks[2].pending[1] = Msg(MENTOR_ID, "finish_current_chat", "")

\* C17: while the mentor is paired with participant p, a text of the mentor
\* that is not a command appends exactly one mentor-tagged line to p's
\* history and is sent to p as the mentor's text, and nothing is sent to
\* anybody else; no handler sends a relayed text to a participant other than
\* the one paired with the mentor; and a text of a registered, unpaired
\* participant sends nothing to the mentor.
C17_RelayToParticipant ==
    /\ \A p \in Participants : \A t \in Texts :
          (MENTOR_ID \in DOMAIN sessions /\ sessions[MENTOR_ID] = p
             /\ ~StartsWithSlash(t)) =>
              LET r == OnMessage(MENTOR_ID, t) IN
              /\ HistLines(r.history, p) = Append(HistLines(history, p), <<"mentor", t>>)
              /\ Sent(r, p, "from_mentor", t)
              /\ \A n \in 1..Len(r.outbox) : r.outbox[n].to = p
    /\ \A i \in Ids : \A t \in Texts :
          LET r == OnMessage(i, t) IN
          \A n \in 1..Len(r.outbox) :
              (r.outbox[n].kind \in {"from_mentor", "from_participant"}
                 /\ r.outbox[n].to \in Participants) =>
                  (MENTOR_ID \in DOMAIN sessions /\ sessions[MENTOR_ID] = r.outbox[n].to)
    /\ \A p \in Participants : \A t \in Texts :
          (p \in DOMAIN users /\ p \notin DOMAIN sessions) =>
              LET r == OnMessage(p, t) IN
              \A n \in 1..Len(r.outbox) : r.outbox[n].to # MENTOR_ID

\* C18: a message of the mentor, not yet in users, whose text is the access
\* password is handled by check_password, and leaves the mentor in users
\* under its username, or under the fallback name when it has none, with an
\* empty history and outside awaiting_name.
C18_MentorPassword ==
    MENTOR_ID \notin DOMAIN users =>
        LET r == OnMessage(MENTOR_ID, ACCESS_PASSWORD) IN
        /\ Route(MENTOR_ID, ACCESS_PASSWORD) = "check_password"
        /\ MENTOR_ID \in DOMAIN r.users
        /\ r.users[MENTOR_ID] = (IF Username(MENTOR_ID) # None THEN Username(MENTOR_ID)
                                 ELSE MENTOR_FALLBACK)
        /\ MENTOR_ID \in DOMAIN r.history
        /\ r.history[MENTOR_ID] = <<>>
        /\ MENTOR_ID \notin r.awaiting_name

\* C19: every step leaves the waitlist as it is, appends one identity to it,
\* or removes its head while forming the pairing of the mentor with that
\* head; and with a mentor that keeps ending the active chat and joining,
\* every participant on the waitlist is eventually paired with the mentor.
C19_QueuedEventuallyPaired ==
    /\ [][ \/ waitlist' = waitlist
           \/ \E i \in Ids : waitlist' = Append(waitlist, i)
           \/ /\ waitlist # <<>>
              /\ waitlist' = Tail(waitlist)
              /\ MENTOR_ID \notin DOMAIN sessions
              /\ MENTOR_ID \in DOMAIN sessions'
              /\ sessions'[MENTOR_ID] = Head(waitlist) ]_vars
    /\ \A p \in Participants :
          InList(waitlist, p) ~> (MENTOR_ID \in DOMAIN sessions /\ sessions[MENTOR_ID] = p)

\* C19 witness: participant 3 registered first, yet 2 is paired while 3 is
\* queued: 2 was taken from the head of the waitlist (the fallback would have
\* taken 3), and 3 asked in between.
C19_Witness ==
    /\ MENTOR_ID \in DOMAIN sessions
    /\ sessions[MENTOR_ID] = 2
    /\ waitlist = <<3>>
    /\ Len(users_keys) >= 2
    /\ users_keys[1] = 3

\* C20: every identity on the waitlist is in users, the identity the mentor
\* is paired with is in users, call_mentor by an identity that is not in
\* users leaves the waitlist as it is, and no step removes a key of users.
C20_QueuedAndPairedRegistered ==
    /\ [] /\ \A n \in 1..Len(waitlist) : waitlist[n] \in DOMAIN users
          /\ MENTOR_ID \in DOMAIN sessions => sessions[MENTOR_ID] \in DOMAIN users
          /\ \A i \in Ids \ DOMAIN users :
                OnCallback(i, "call_mentor").waitlist = waitlist
    /\ [][DOMAIN users \subseteq DOMAIN users']_vars

\* C20 witness: a participant is paired and somebody is queued while another
\* participant is not registered.
C20_Witness ==
    /\ MENTOR_ID \in DOMAIN sessions
    /\ sessions[MENTOR_ID] \in Participants
    /\ waitlist # <<>>
    /\ \E p \in Participants : p \notin DOMAIN users

\* C21: the mentor identity is never in the waitlist, and the identity the
\* mentor is paired with is never the mentor itself.
C21_MentorNeverParticipant ==
    /\ ~InList(waitlist, MENTOR_ID)
    /\ MENTOR_ID \in DOMAIN sessions => sessions[MENTOR_ID] # MENTOR_ID

====
